---- MODULE Spec2Model ----
(***************************************************************************)
(* Model of otel-mcp's telemetry buffering core:                           *)
(*   internal/buffer        fixedDeque[T] and the three-kind buffer        *)
(*   connector/mcpconnector the pass-through connector that mirrors        *)
(*                          batches into the extension's buffer            *)
(* Goroutines are threads with a program counter (pc) and a frame (fr).    *)
(* A fixedDeque handler is cut exactly where it takes or gives up fd.mu.   *)
(***************************************************************************)
EXTENDS Integers, Sequences, FiniteSets, TLC

\* ------------------------------------------------------------------ bounds

\* Width of Go's int in the model (64 in the build; scaled so that TLC can
\* enumerate every int as a limit or an offset).
IntBits == 5
\* Largest capacity New is called with.
MaxCap == 2
\* Batches allocated in one behaviour: enough to overflow the largest buffer
\* twice over.
MaxRefs == MaxCap + 2
\* Goroutines calling into the store concurrently.
NumThreads == 2

\* ------------------------------------------------------------ Go integers

MaxInt == 2^(IntBits - 1) - 1
MinInt == -(2^(IntBits - 1))
Ints == MinInt..MaxInt

\* Two's-complement wrap-around of Go's signed int arithmetic.
Wrap(x) == ((x - MinInt) % (2^IntBits)) + MinInt

\* make([]T, n) panics ("makeslice: len out of range") when n is negative
\* or beyond what the allocator can address, which is far below MaxInt.
MaxSliceLen == 2^(IntBits - 2)

Min(a, b) == IF a < b THEN a ELSE b

\* ------------------------------------------------------------------ values

Kinds == {"traces", "metrics", "logs"}
\* The order GetStats reads the three buffers in.
KindSeq == <<"traces", "metrics", "logs">>

Threads == 1..NumThreads

\* A batch (ptrace.Traces, pmetric.Metrics, plog.Logs) is a reference into
\* heap; Zero is the zero value of T that deque.At gives out of range.
Zero == 0

\* A collector configuration (*confmap.Conf) is written as its two halves;
\* whole configurations have equal halves, NoConf is the nil pointer.
NoConf == <<Zero, Zero>>
Conf(i) == <<i, i>>

NoKind == "none"
NoRes == [panic |-> FALSE, items |-> <<>>]
NoStats == [k \in Kinds |-> [count |-> -1, capacity |-> -1]]
EmptyFrame ==
    [op |-> "none", kind |-> NoKind, batch |-> Zero, item |-> Zero,
     limit |-> 0, offset |-> 0, res |-> NoRes, stats |-> NoStats, idx |-> 0,
     err |-> "nil", conf |-> NoConf, pages |-> <<>>]

\* A next consumer: none wired, or one whose Capabilities().MutatesData is
\* false ("plain") or true ("mutating").
Consumers == {"nil", "plain", "mutating"}
Capabilities(c) == [MutatesData |-> c = "mutating"]

\* An extension of the host: its component type, and whether it implements
\* the connector's TelemetryBuffer interface.
McpExtension == [type |-> "mcp", buffers |-> TRUE]
McpWithoutBuffer == [type |-> "mcp", buffers |-> FALSE]
OtherWithBuffer == [type |-> "other", buffers |-> TRUE]

\* ------------------------------------------------------------ deque, pure

\* Mutant: the newest item is dropped instead of the oldest.
DequeRemoveFront_Newest(q) == IF q = <<>> THEN q ELSE SubSeq(q, 1, Len(q) - 1)
\* Mutant: the index counts from the newest item.
DequeAt_FromBack(q, n) == IF n < 0 \/ n >= Len(q) THEN Zero ELSE q[Len(q) - n]

\* deque.Deque.Len, RemoveFront, PushBack and At.
DequeRemoveFront(q) == IF q = <<>> THEN q ELSE Tail(q)
DequePushBack(q, item) == Append(q, item)
DequeAt(q, n) == IF n < 0 \/ n >= Len(q) THEN Zero ELSE q[n + 1]

\* Mutant: > for >=, the buffer grows to capacity + 1.
FdEvict_OffByOne(q, cap) == IF Len(q) > cap THEN DequeRemoveFront(q) ELSE q
\* Mutant: the capacity test is gone, every Add drops the oldest item.
FdEvict_Always(q, cap) == DequeRemoveFront(q)

\* fixedDeque.Add, first half: drop the oldest item when at capacity.
FdEvict(q, cap) == IF Len(q) >= cap THEN DequeRemoveFront(q) ELSE q

\* fixedDeque.Add, second half: append at the back.
FdPush(q, item) == DequePushBack(q, item)

\* The clamped limit of fixedDeque.Get (offset < length here).
ActualLimit(length, limit, offset) ==
    IF Wrap(offset + limit) > length THEN Wrap(length - offset) ELSE limit

\* Mutant: limit and offset count from the newest item.
FdGet_FromNewest(q, limit, offset) ==
    LET length == Len(q)
    IN  IF offset >= length \/ limit < 0 \/ offset < 0
        THEN [panic |-> FALSE, items |-> <<>>]
        ELSE [panic |-> FALSE,
              items |-> SubSeq(q, length - offset - Min(limit, length - offset) + 1,
                               length - offset)]

\* fixedDeque.Get between RLock and RUnlock.
FdGet(q, limit, offset) ==
    LET length == Len(q)
    IN  IF offset >= length
        THEN [panic |-> FALSE, items |-> <<>>]
        ELSE LET actualLimit == ActualLimit(length, limit, offset)
             IN  IF actualLimit < 0 \/ actualLimit > MaxSliceLen
                 THEN [panic |-> TRUE, items |-> <<>>]
                 ELSE [panic |-> FALSE,
                       items |-> [i \in 1..actualLimit |->
                                     DequeAt(q, Wrap(offset + (i - 1)))]]

\* fixedDeque.Count between RLock and RUnlock.
FdCount(q) == Len(q)

\* ------------------------------------------------------------------- state

VARIABLES
    capacity,   \* capacity[k]: fixedDeque.capacity of kind k's buffer
    deque,      \* deque[k]: the items of kind k's buffer, oldest first
    mu,         \* mu[k]: fd.mu, [w: the writer holding it or 0, r: the readers]
    heap,       \* heap[ref]: the batch allocated as ref: its kind, the batch
                \* it was copied from, its content
    order,      \* history: order[k] is every item pushed to k, in push order
    conn,       \* the mcpConnector: its next consumers, buffer, cached flags
    host,       \* the extensions component.Host.GetExtensions() returns
    sink,       \* sink[k]: what the next consumer of kind k was handed, and
                \* what it answered, call by call
    ext,        \* the mcpExtension: its config, HTTP server and lifecycle
    target,     \* the kind this run's callers work on (the connector's
                \* pipeline type)
    pc,         \* pc[t]: where goroutine t stands
    fr          \* fr[t]: goroutine t's arguments, locals and results

vars == <<capacity, deque, mu, heap, order, conn, host, sink, ext, target, pc, fr>>

\* A sync.RWMutex: the goroutine that holds it for writing (w), those that
\* hold it for reading (r), and the one that waits inside Lock for the
\* readers to leave (p).
Unlocked == [w |-> 0, r |-> {}, p |-> 0]

\* buffer.New(tracesCapacity, metricsCapacity, logsCapacity)
New(caps) ==
    /\ capacity = caps
    /\ deque = [k \in Kinds |-> <<>>]
    /\ mu = [k \in Kinds |-> Unlocked]

\* The capacities New is called with: every kind gets each capacity of
\* 1..MaxCap in some configuration, and neighbouring kinds differ.
CapConfig(c) ==
    [k \in Kinds |-> CASE k = "traces" -> c
                       [] k = "metrics" -> (c % MaxCap) + 1
                       [] k = "logs" -> ((c + 1) % MaxCap) + 1]
CapConfigs == {CapConfig(c) : c \in 1..MaxCap}

\* newConnector(set, nextTraces, nextMetrics, nextLogs); started records that
\* the collector has called Start, which it does once, before any data flows.
newConnector(next) ==
    [next |-> next,
     buffer |-> Zero,
     started |-> FALSE,
     startErr |-> "none",
     nextMutates |-> [k \in Kinds |->
                        IF next[k] # "nil" THEN Capabilities(next[k]).MutatesData
                                           ELSE FALSE]]

NoNext == [k \in Kinds |-> "nil"]

\* newMCPExtension(cfg, set); the buffer it builds is New(cfg). started,
\* starts, startErr, shutdowns and shutdownErr record the calls of Start and
\* Shutdown and what they returned, validateErr what cfg.Validate() returned;
\* endpointBusy tells whether another process listens on cfg.Endpoint,
\* notified counts the NotifyConfig calls that have returned; created is
\* false while the configuration is loaded but createExtension has not run.
newMCPExtension(cfg) ==
    [config |-> cfg,
     created |-> TRUE,
     endpointBusy |-> FALSE,
     httpServer |-> "nil",
     cancelFunc |-> "nil",
     started |-> FALSE,
     starts |-> 0,
     startErr |-> "none",
     shutdowns |-> 0,
     shutdownErr |-> "none",
     validateErr |-> "none",
     collectorConf |-> NoConf,
     notified |-> 0]

\* The store alone: no pipeline is wired through the connector.
Init ==
    /\ \E caps \in CapConfigs : New(caps) /\ ext = newMCPExtension(caps)
    /\ heap = <<>>
    /\ order = [k \in Kinds |-> <<>>]
    /\ conn = newConnector(NoNext)
    /\ host = {}
    /\ sink = [k \in Kinds |-> <<>>]
    /\ target \in Kinds
    /\ pc = [t \in Threads |-> "Idle"]
    /\ fr = [t \in Threads |-> EmptyFrame]

\* ------------------------------------------------------------ sync.RWMutex

\* Mutant: Add does not wait for the lock.
CanLock_NoWait(m) == TRUE
\* fd.mu.Lock() returns once no reader and no other writer holds the lock.
CanLock(m) == m.w = 0 /\ m.r = {}
\* Mutant: Get and Count read without waiting for the writer.
CanRLock_NoWait(m) == TRUE
\* fd.mu.RLock() returns once no writer holds the lock or waits for it inside
\* Lock.
CanRLock(m) == m.w = 0 /\ m.p = 0

Locked(m, t) == [m EXCEPT !.w = t]
RLocked(m, t) == [m EXCEPT !.r = @ \cup {t}]
\* Mutant: RUnlock leaves the read lock held.
RUnlocked_Kept(m, t) == m
RUnlocked(m, t) == [m EXCEPT !.r = @ \ {t}]

\* ------------------------------------------------------- fixedDeque steps

\* ptrace.NewTraces() and the like: a fresh batch of kind k (src: the batch
\* it was copied from, Zero for one built from scratch).
NewBatch(k) == Append(heap, [kind |-> k, src |-> Zero, data |-> "received"])

\* Mutant: the three buffers share the mutex of the traces buffer.
Add_Lock_Shared(t) ==
    /\ pc[t] = "Add_Lock"
    /\ CanLock(mu["traces"])
    /\ mu' = [mu EXCEPT !["traces"] = Locked(@, t)]
    /\ pc' = [pc EXCEPT ![t] = "Add_Evict"]
    /\ UNCHANGED <<capacity, conn, host, sink, ext, target, deque, heap, order, fr>>

\* fixedDeque.Add: fd.mu.Lock()
Add_Lock(t) ==
    /\ pc[t] = "Add_Lock"
    /\ CanLock(mu[fr[t].kind])
    /\ mu[fr[t].kind].p \in {0, t}
    /\ mu' = [mu EXCEPT ![fr[t].kind] = Locked(@, t)]
    /\ pc' = [pc EXCEPT ![t] = "Add_Evict"]
    /\ UNCHANGED <<capacity, conn, host, sink, ext, target, deque, heap, order, fr>>

\* Mutant: the three kinds share one ring, so that every Add evicts from the
\* traces buffer.
Add_Evict_SharedRing(t) ==
    /\ pc[t] = "Add_Evict"
    /\ deque' = [deque EXCEPT !["traces"] = FdEvict(@, capacity[fr[t].kind])]
    /\ pc' = [pc EXCEPT ![t] = "Add_Push"]
    /\ UNCHANGED <<capacity, conn, host, sink, ext, target, mu, heap, order, fr>>

\* fixedDeque.Add: if fd.deque.Len() >= fd.capacity { fd.deque.RemoveFront() }
Add_Evict(t) ==
    /\ pc[t] = "Add_Evict"
    /\ deque' = [deque EXCEPT ![fr[t].kind] = FdEvict(@, capacity[fr[t].kind])]
    /\ pc' = [pc EXCEPT ![t] = "Add_Push"]
    /\ UNCHANGED <<capacity, conn, host, sink, ext, target, mu, heap, order, fr>>

\* Where an Add returns to: the connector goes on to forward the batch, any
\* other caller is done (Add returns nothing).
AfterAdd(f) == IF f.op = "Consume" THEN "Consume_Forward" ELSE "Idle"

\* fixedDeque.Add: fd.deque.PushBack(item), then the deferred fd.mu.Unlock()
Add_Push(t) ==
    /\ pc[t] = "Add_Push"
    /\ deque' = [deque EXCEPT ![fr[t].kind] = FdPush(@, fr[t].item)]
    /\ order' = [order EXCEPT ![fr[t].kind] = Append(@, fr[t].item)]
    /\ mu' = [mu EXCEPT ![fr[t].kind] = Unlocked]
    /\ pc' = [pc EXCEPT ![t] = AfterAdd(fr[t])]
    /\ fr' = [fr EXCEPT ![t] = IF fr[t].op = "Consume" THEN @ ELSE EmptyFrame]
    /\ UNCHANGED <<capacity, conn, host, sink, ext, target, heap>>

\* fixedDeque.Get: fd.mu.RLock()
Get_RLock(t) ==
    /\ pc[t] = "Get_RLock"
    /\ CanRLock(mu[fr[t].kind])
    /\ mu' = [mu EXCEPT ![fr[t].kind] = RLocked(@, t)]
    /\ pc' = [pc EXCEPT ![t] = "Get_Read"]
    /\ UNCHANGED <<capacity, conn, host, sink, ext, target, deque, heap, order, fr>>

\* Where a Get returns to: a client that reads the buffer page by page looks
\* at the page, any other caller is done.
AfterGet(f) == IF f.op = "Page" THEN "Page_Next" ELSE "Done"

\* Mutant: Get hands the items out and drops them from the buffer.
Get_Read_Drains(t) ==
    /\ pc[t] = "Get_Read"
    /\ fr' = [fr EXCEPT ![t].res = FdGet(deque[fr[t].kind], fr[t].limit, fr[t].offset)]
    /\ deque' = [deque EXCEPT ![fr[t].kind] = <<>>]
    /\ mu' = [mu EXCEPT ![fr[t].kind] = RUnlocked(@, t)]
    /\ pc' = [pc EXCEPT ![t] = AfterGet(fr[t])]
    /\ UNCHANGED <<capacity, conn, host, sink, ext, target, heap, order>>

\* fixedDeque.Get: the body, then the deferred fd.mu.RUnlock() (a panic in
\* make runs it too)
Get_Read(t) ==
    /\ pc[t] = "Get_Read"
    /\ fr' = [fr EXCEPT ![t].res = FdGet(deque[fr[t].kind], fr[t].limit, fr[t].offset)]
    /\ mu' = [mu EXCEPT ![fr[t].kind] = RUnlocked(@, t)]
    /\ pc' = [pc EXCEPT ![t] = AfterGet(fr[t])]
    /\ UNCHANGED <<capacity, conn, host, sink, ext, target, deque, heap, order>>

\* fixedDeque.Count: fd.mu.RLock(), for the buffer GetStats reads next
Count_RLock(t) ==
    /\ pc[t] = "Count_RLock"
    /\ CanRLock(mu[KindSeq[fr[t].idx]])
    /\ mu' = [mu EXCEPT ![KindSeq[fr[t].idx]] = RLocked(@, t)]
    /\ pc' = [pc EXCEPT ![t] = "Count_Read"]
    /\ UNCHANGED <<capacity, conn, host, sink, ext, target, deque, heap, order, fr>>

\* Mutant: every kind's capacity is copied from the traces buffer.
StatsEntry_TracesCapacity(k) ==
    [count |-> Len(deque[k]), capacity |-> capacity["traces"]]

\* The two fields GetStats fills in for kind k: b.<k>.Count(), b.<k>.Capacity().
StatsEntry(k) == [count |-> FdCount(deque[k]), capacity |-> capacity[k]]

\* fixedDeque.Count: fd.deque.Len() and the deferred RUnlock; GetStats then
\* reads Capacity() (no lock) and moves on to the next kind.
Count_Read(t) ==
    LET k == KindSeq[fr[t].idx]
    IN  /\ pc[t] = "Count_Read"
        /\ fr' = [fr EXCEPT ![t].stats[k] = StatsEntry(k),
                            ![t].idx = IF @ < Len(KindSeq) THEN @ + 1 ELSE @]
        /\ mu' = [mu EXCEPT ![k] = RUnlocked(@, t)]
        /\ pc' = [pc EXCEPT ![t] =
                        IF fr[t].idx < Len(KindSeq) THEN "Count_RLock" ELSE "Done"]
        /\ UNCHANGED <<capacity, conn, host, sink, ext, target, deque, heap, order>>

\* ------------------------------------------------------------ buffer calls

\* The kinds goroutine t works on in this run: the run's target kind or, in a
\* run whose target is OwnKind, the kind of t's own pipeline: traces for the
\* first goroutine, metrics and logs for the second.
OwnKind == "own"
\* The goroutine of the sequential runs, and a second one next to it.
Caller == 1
Other == Caller + 1
Goroutines == IF target = OwnKind THEN {Caller, Other} ELSE Threads
Works(t, k) ==
    IF target = OwnKind
    THEN t \in Goroutines /\ ((t = Caller) = (k = "traces"))
    ELSE k = target

\* buffer.AddTraces / AddMetrics / AddLogs: b.<kind>.Add(batch)
BufferAdd(t, k) ==
    /\ pc[t] = "Idle"
    /\ Works(t, k)
    /\ Len(heap) < MaxRefs
    /\ heap' = NewBatch(k)
    /\ fr' = [fr EXCEPT ![t] = [EmptyFrame EXCEPT !.op = "Add", !.kind = k,
                                                  !.item = Len(heap) + 1]]
    /\ pc' = [pc EXCEPT ![t] = "Add_Lock"]
    /\ UNCHANGED <<capacity, conn, host, sink, ext, target, deque, mu, order>>

AddTraces(t) == BufferAdd(t, "traces")
AddMetrics(t) == BufferAdd(t, "metrics")
AddLogs(t) == BufferAdd(t, "logs")

\* buffer.GetRecentTraces / GetRecentMetrics / GetRecentLogs:
\* b.<kind>.Get(limit, offset)
BufferGet(t, k, limit, offset) ==
    /\ pc[t] = "Idle"
    /\ Works(t, k)
    /\ fr' = [fr EXCEPT ![t] = [EmptyFrame EXCEPT !.op = "Get", !.kind = k,
                                                  !.limit = limit, !.offset = offset]]
    /\ pc' = [pc EXCEPT ![t] = "Get_RLock"]
    /\ UNCHANGED <<capacity, conn, host, sink, ext, target, deque, mu, heap, order>>

GetRecentTraces(t, limit, offset) == BufferGet(t, "traces", limit, offset)
GetRecentMetrics(t, limit, offset) == BufferGet(t, "metrics", limit, offset)
GetRecentLogs(t, limit, offset) == BufferGet(t, "logs", limit, offset)

\* buffer.GetStats: Count() and Capacity() of traces, metrics, logs in turn
GetStats(t) ==
    /\ pc[t] = "Idle"
    /\ fr' = [fr EXCEPT ![t] = [EmptyFrame EXCEPT !.op = "Stats", !.idx = 1]]
    /\ pc' = [pc EXCEPT ![t] = "Count_RLock"]
    /\ UNCHANGED <<capacity, conn, host, sink, ext, target, deque, mu, heap, order>>

\* The call returns; the caller drops the result before its next call.
Return(t) ==
    /\ pc[t] = "Done"
    /\ fr' = [fr EXCEPT ![t] = EmptyFrame]
    /\ pc' = [pc EXCEPT ![t] = "Idle"]
    /\ UNCHANGED <<capacity, conn, host, sink, ext, target, deque, mu, heap, order>>

\* ------------------------------------------------- Spec: concurrent store

\* Limits and offsets the concurrent callers pass.
ConcLimits == {MaxCap + 1}
ConcOffsets == {0}
\* Adds the concurrent callers issue: enough to overflow the largest buffer.
ConcRefs == MaxCap + 1

Call(t) ==
        \/ Len(heap) < ConcRefs /\ AddTraces(t)
        \/ Len(heap) < ConcRefs /\ AddMetrics(t)
        \/ Len(heap) < ConcRefs /\ AddLogs(t)
        \/ \E limit \in ConcLimits, offset \in ConcOffsets :
              \/ GetRecentTraces(t, limit, offset)
              \/ GetRecentMetrics(t, limit, offset)
              \/ GetRecentLogs(t, limit, offset)

\* The steps inside a call, and its return.
Inner(t) ==
        \/ Add_Lock(t)
        \/ Add_Evict(t)
        \/ Add_Push(t)
        \/ Get_RLock(t)
        \/ Get_Read(t)
        \/ Count_RLock(t)
        \/ Count_Read(t)
        \/ Return(t)

Next == \E t \in Threads : Call(t) \/ GetStats(t) \/ Inner(t)

Spec == Init /\ [][Next]_vars

\* ------------------------------------ SpecKinds: goroutines of several kinds

\* The store of Spec under one capacity configuration, with its goroutines
\* all on the traces buffer or, two of them, spread over the three buffers.
InitKinds ==
    /\ New(CapConfig(MaxCap))
    /\ ext = newMCPExtension(CapConfig(MaxCap))
    /\ heap = <<>>
    /\ order = [k \in Kinds |-> <<>>]
    /\ conn = newConnector(NoNext)
    /\ host = {}
    /\ sink = [k \in Kinds |-> <<>>]
    /\ target \in {"traces", OwnKind}
    /\ pc = [t \in Threads |-> "Idle"]
    /\ fr = [t \in Threads |-> EmptyFrame]

NextKinds ==
    \E t \in Threads :
        \/ Call(t)
        \/ t \in Goroutines /\ GetStats(t)
        \/ Inner(t)

SpecKinds == InitKinds /\ [][NextKinds]_vars

\* ------------------------------------------- SpecGet: one caller, every int

\* One caller adds to and reads one buffer, with every int as limit and as
\* offset.
NextGet ==
    \/ AddTraces(Caller)
    \/ AddMetrics(Caller)
    \/ AddLogs(Caller)
    \/ /\ pc[Caller] = "Idle"
       /\ \E limit \in Ints, offset \in Ints :
          \/ GetRecentTraces(Caller, limit, offset)
          \/ GetRecentMetrics(Caller, limit, offset)
          \/ GetRecentLogs(Caller, limit, offset)
    \/ Add_Lock(Caller)
    \/ Add_Evict(Caller)
    \/ Add_Push(Caller)
    \/ Get_RLock(Caller)
    \/ Get_Read(Caller)
    \/ Return(Caller)

SpecGet == Init /\ [][NextGet]_vars

\* ------------------------------------------ SpecPage: reading page by page

\* A client of get_recent_traces / _metrics / _logs reads a buffer in pages
\* of limit items: the first call has offset 0.
Page(t, k, limit) ==
    /\ pc[t] = "Idle"
    /\ Works(t, k)
    /\ fr' = [fr EXCEPT ![t] = [EmptyFrame EXCEPT !.op = "Page", !.kind = k,
                                                  !.limit = limit]]
    /\ pc' = [pc EXCEPT ![t] = "Get_RLock"]
    /\ UNCHANGED <<capacity, conn, host, sink, ext, target, deque, mu, heap, order>>

\* The client stops at the first empty page; otherwise it keeps the page and
\* asks for the next one, limit items further.
Page_Next(t) ==
    /\ pc[t] = "Page_Next"
    /\ IF fr[t].res.items = <<>>
       THEN /\ pc' = [pc EXCEPT ![t] = "Done"]
            /\ fr' = fr
       ELSE /\ pc' = [pc EXCEPT ![t] = "Get_RLock"]
            /\ fr' = [fr EXCEPT ![t].pages = @ \o fr[t].res.items,
                                ![t].offset = Wrap(@ + fr[t].limit)]
    /\ UNCHANGED <<capacity, conn, host, sink, ext, target, deque, mu, heap, order>>

\* One caller fills a buffer and reads it page by page, with every page size.
NextPage ==
    \/ AddTraces(Caller)
    \/ AddMetrics(Caller)
    \/ AddLogs(Caller)
    \/ /\ pc[Caller] = "Idle"
       /\ \E limit \in 1..MaxInt :
          \/ Page(Caller, "traces", limit)
          \/ Page(Caller, "metrics", limit)
          \/ Page(Caller, "logs", limit)
    \/ Add_Lock(Caller)
    \/ Add_Evict(Caller)
    \/ Add_Push(Caller)
    \/ Get_RLock(Caller)
    \/ Get_Read(Caller)
    \/ Page_Next(Caller)
    \/ Return(Caller)

SpecPage == Init /\ [][NextPage]_vars

\* ------------------------------------------------------------- connector

\* Mutant: an extension of type "mcp" is taken without the interface check.
FindBuffer_IgnoresInterface(exts) == IF \E e \in exts : e.type = "mcp" THEN 1 ELSE Zero

\* Mutant: any extension that implements TelemetryBuffer is taken, whatever
\* its type.
FindBuffer_IgnoresType(exts) == IF \E e \in exts : e.buffers THEN 1 ELSE Zero

\* The extension Start picks out of the host's: the first whose component
\* type is "mcp" and that implements TelemetryBuffer (every such extension
\* fronts the one store, 1); Zero (nil) when there is none.
FindBuffer(exts) ==
    IF \E e \in exts : e.type = "mcp" /\ e.buffers THEN 1 ELSE Zero

\* mcpConnector.Start: looks the buffer up among the host's extensions and
\* returns nil whether or not it finds one.
Start ==
    /\ ~conn.started
    /\ conn' = [conn EXCEPT !.started = TRUE, !.buffer = FindBuffer(host),
                            !.startErr = "nil"]
    /\ UNCHANGED <<capacity, deque, mu, heap, order, host, sink, ext, target, pc, fr>>

\* Mutant: Shutdown lets go of the buffer.
Shutdown_Releases ==
    /\ conn.started
    /\ conn' = [conn EXCEPT !.buffer = Zero]
    /\ UNCHANGED <<capacity, deque, mu, heap, order, host, sink, ext, target, pc, fr>>

\* mcpConnector.Shutdown: return nil
Shutdown ==
    /\ conn.started
    /\ UNCHANGED vars

\* Mutant: the connector never buffers.
HoldsBuffer_Never(c) == FALSE
\* if c.buffer != nil
HoldsBuffer(c) == c.buffer # Zero

\* Mutant: the batch is stored as received, whatever the next consumer does.
ShouldClone_Never(c, k) == FALSE
\* Mutant: every batch is copied before it is stored.
ShouldClone_Always(c, k) == TRUE
\* Mutant: the next consumer is asked again at every call.
ShouldClone_Live(c, k) == Capabilities(c.next[k]).MutatesData
\* if c.nextTracesMutates (nextMetricsMutates, nextLogsMutates)
ShouldClone(c, k) == c.nextMutates[k]

\* td.CopyTo(tdClone) into a fresh ptrace.NewTraces(): a copy of batch b
Clone(h, b) == Append(h, [kind |-> h[b].kind, src |-> b, data |-> h[b].data])

\* Mutant: the downstream consumer is handed the batch that went to the buffer.
Forwarded_Stored(f) == f.item
\* What the next consumer is called with: td, the batch received.
Forwarded(f) == f.batch

\* Mutant: the downstream error is dropped.
Result_Nil(e) == "nil"
\* return c.nextTraces.ConsumeTraces(ctx, td)
Result(e) == e

\* Batches a run of the connector receives: enough to fill the largest
\* buffer and to overflow the others.
ConnCalls == MaxCap

\* ConsumeTraces / ConsumeMetrics / ConsumeLogs up to the call of
\* c.buffer.Add<Kind>: with a buffer, the batch itself or, when the next
\* consumer mutates data, a copy of it is handed to the buffer.
Consume(t, k) ==
    LET b == Len(heap) + 1
        received == NewBatch(k)
        f == [EmptyFrame EXCEPT !.op = "Consume", !.kind = k, !.batch = b]
    IN  /\ pc[t] = "Idle"
        /\ Works(t, k)
        /\ conn.started
        /\ Cardinality({r \in 1..Len(heap) : heap[r].src = Zero}) < ConnCalls
        /\ IF HoldsBuffer(conn)
           THEN /\ IF ShouldClone(conn, k)
                   THEN /\ heap' = Clone(received, b)
                        /\ fr' = [fr EXCEPT ![t] = [f EXCEPT !.item = b + 1]]
                   ELSE /\ heap' = received
                        /\ fr' = [fr EXCEPT ![t] = [f EXCEPT !.item = b]]
                /\ pc' = [pc EXCEPT ![t] = "Add_Lock"]
           ELSE /\ heap' = received
                /\ fr' = [fr EXCEPT ![t] = f]
                /\ pc' = [pc EXCEPT ![t] = "Consume_Forward"]
        /\ UNCHANGED <<capacity, conn, host, sink, ext, target, deque, mu, order>>

ConsumeTraces(t) == Consume(t, "traces")
ConsumeMetrics(t) == Consume(t, "metrics")
ConsumeLogs(t) == Consume(t, "logs")

\* Errors the next consumer may answer with.
Errors == {"nil", "err"}

\* Consume*: if c.next<Kind> != nil { return c.next<Kind>.Consume<Kind>(ctx, td) }
\* return nil
Consume_Forward(t) ==
    LET k == fr[t].kind
    IN  /\ pc[t] = "Consume_Forward"
        /\ IF conn.next[k] # "nil"
           THEN \E e \in Errors :
                   /\ sink' = [sink EXCEPT ![k] =
                                  Append(@, [batch |-> Forwarded(fr[t]), res |-> e])]
                   /\ fr' = [fr EXCEPT ![t].err = Result(e)]
           ELSE /\ sink' = sink
                /\ fr' = [fr EXCEPT ![t].err = "nil"]
        /\ pc' = [pc EXCEPT ![t] = "Done"]
        /\ UNCHANGED <<capacity, conn, host, ext, target, deque, mu, heap, order>>

\* ---------------------------------------------- SpecConn: the connector

\* What the factory wires for a pipeline of kind k: newConnector with the
\* next consumer of that kind and nil for the other two.
Wired(k, c) == [j \in Kinds |-> IF j = k THEN c ELSE "nil"]

\* Hosts the connector is started in.
Hosts ==
    {{}, {McpExtension}, {McpWithoutBuffer, OtherWithBuffer},
     {McpExtension, McpWithoutBuffer, OtherWithBuffer}}

\* The extension's store is built with one capacity per kind, the largest
\* for traces and the smallest for metrics.
InitConn ==
    /\ New(CapConfig(MaxCap))
    /\ ext = newMCPExtension(CapConfig(MaxCap))
    /\ heap = <<>>
    /\ order = [k \in Kinds |-> <<>>]
    /\ target \in Kinds
    /\ \E c \in Consumers : conn = newConnector(Wired(target, c))
    /\ host \in Hosts
    /\ sink = [k \in Kinds |-> <<>>]
    /\ pc = [t \in Threads |-> "Idle"]
    /\ fr = [t \in Threads |-> EmptyFrame]

NextConn ==
    \/ Start
    \/ Shutdown
    \/ \E t \in Threads :
        \/ ConsumeTraces(t)
        \/ ConsumeMetrics(t)
        \/ ConsumeLogs(t)
        \/ Add_Lock(t)
        \/ Add_Evict(t)
        \/ Add_Push(t)
        \/ Consume_Forward(t)
        \/ Return(t)

SpecConn == InitConn /\ [][NextConn]_vars

\* ------------------------------------------ SpecLive: calls under fairness

\* fixedDeque.Add: fd.mu.Lock() finds readers inside; from then on RLock
\* makes new readers wait until this Lock has been granted and released.
Add_Wait(t) ==
    /\ pc[t] = "Add_Lock"
    /\ mu[fr[t].kind].w = 0
    /\ mu[fr[t].kind].p = 0
    /\ mu[fr[t].kind].r # {}
    /\ mu' = [mu EXCEPT ![fr[t].kind].p = t]
    /\ UNCHANGED <<capacity, conn, host, sink, ext, target, deque, heap, order, pc, fr>>

\* The steps of goroutine t inside a call.
Running(t) ==
    \/ Add_Wait(t)
    \/ Add_Lock(t)
    \/ Add_Evict(t)
    \/ Add_Push(t)
    \/ Get_RLock(t)
    \/ Get_Read(t)
    \/ Count_RLock(t)
    \/ Count_Read(t)
    \/ Consume_Forward(t)

\* A traces pipeline through the connector, whose next consumer does not
\* mutate, started on a host with the extension; the traces buffer holds one
\* batch.
InitLive ==
    /\ New(CapConfig(1))
    /\ ext = newMCPExtension(CapConfig(1))
    /\ heap = <<>>
    /\ order = [k \in Kinds |-> <<>>]
    /\ target = "traces"
    /\ host = {McpExtension}
    /\ conn = [newConnector(Wired(target, "plain")) EXCEPT
                  !.started = TRUE, !.buffer = FindBuffer(host), !.startErr = "nil"]
    /\ sink = [k \in Kinds |-> <<>>]
    /\ pc = [t \in Threads |-> "Idle"]
    /\ fr = [t \in Threads |-> EmptyFrame]

\* The connector's calls, the store's calls and their steps: the first
\* goroutine is the pipeline's and writes, the others serve MCP tools and
\* keep reading, the second one the statistics too.
NextLive ==
    \E t \in Threads :
        \/ t = Caller /\ Len(heap) < MaxCap /\ ConsumeTraces(t)
        \/ t = Caller /\ Len(heap) < MaxCap /\ AddTraces(t)
        \/ t # Caller /\ \E limit \in ConcLimits, offset \in ConcOffsets :
                            GetRecentTraces(t, limit, offset)
        \/ t = Other /\ GetStats(t)
        \/ Running(t)
        \/ Return(t)

\* The scheduler runs every goroutine that can take a step and the next
\* consumer returns; a Lock that finds readers inside makes later RLocks
\* wait, sync.Mutex hands the lock to a goroutine that keeps waiting for it,
\* and Unlock wakes the readers that waited before any later Lock is served:
\* a goroutine whose next step keeps becoming possible takes it.
Fairness == \A t \in Threads : SF_vars(Running(t))

SpecLive == InitLive /\ [][NextLive]_vars /\ Fairness

\* ------------------------------------- SpecEnv: the connector's environment

\* A next consumer that mutates data writes to a batch it was handed, during
\* or after its Consume<Kind> call.
DownstreamMutates ==
    \E k \in Kinds : \E i \in 1..Len(sink[k]) :
        LET b == sink[k][i].batch
        IN  /\ Capabilities(conn.next[k]).MutatesData
            /\ heap[b].data = "received"
            /\ heap' = [heap EXCEPT ![b].data = "mutated"]
            /\ UNCHANGED <<capacity, deque, mu, order, conn, host, sink, ext,
                           target, pc, fr>>

\* The producer reuses a batch once the Consume call it passed it to has
\* returned.
UpstreamReuses ==
    \E b \in 1..Len(heap) :
        /\ heap[b].src = Zero
        /\ \A t \in Threads : fr[t].batch # b
        /\ heap[b].data = "received"
        /\ heap' = [heap EXCEPT ![b].data = "mutated"]
        /\ UNCHANGED <<capacity, deque, mu, order, conn, host, sink, ext,
                       target, pc, fr>>

\* An mcp extension that implements TelemetryBuffer turns up on the host.
ExtensionAppears ==
    /\ McpExtension \notin host
    /\ host' = host \cup {McpExtension}
    /\ UNCHANGED <<capacity, deque, mu, heap, order, conn, sink, ext, target,
                   pc, fr>>

\* The wired next consumer starts to answer Capabilities() differently.
CapabilitiesChange ==
    /\ conn.next[target] # "nil"
    /\ conn' = [conn EXCEPT !.next[target] =
                                IF @ = "plain" THEN "mutating" ELSE "plain"]
    /\ UNCHANGED <<capacity, deque, mu, heap, order, host, sink, ext, target,
                   pc, fr>>

\* One goroutine feeds the connector while its environment moves.
NextEnv ==
    \/ Start
    \/ Shutdown
    \/ ConsumeTraces(Caller)
    \/ ConsumeMetrics(Caller)
    \/ ConsumeLogs(Caller)
    \/ Add_Lock(Caller)
    \/ Add_Evict(Caller)
    \/ Add_Push(Caller)
    \/ Consume_Forward(Caller)
    \/ Return(Caller)
    \/ DownstreamMutates
    \/ UpstreamReuses
    \/ ExtensionAppears
    \/ CapabilitiesChange

SpecEnv == InitConn /\ [][NextEnv]_vars

\* ------------------------------------------- SpecExt: the mcp extension

\* defaultBufferSize of the extension factory.
defaultBufferSize == 1000

\* createDefaultConfig: the three buffer sizes (the endpoint plays no part in
\* validation).
createDefaultConfig == [k \in Kinds |-> defaultBufferSize]

errInvalidBufferSize == "buffer size must be positive"

\* Mutant: only the traces size is checked.
Validate_TracesOnly(cfg) ==
    IF cfg["traces"] <= 0 THEN errInvalidBufferSize ELSE "nil"

\* Config.Validate
Validate(cfg) ==
    IF cfg["traces"] <= 0 THEN errInvalidBufferSize
    ELSE IF cfg["metrics"] <= 0 THEN errInvalidBufferSize
    ELSE IF cfg["logs"] <= 0 THEN errInvalidBufferSize
    ELSE "nil"

\* Buffer sizes a configuration file may give.
BufferSizes == {MinInt, -1, 0, 1, MaxCap, MaxInt}
Configs == [Kinds -> BufferSizes] \cup {createDefaultConfig}

\* cfg.Validate() on the extension's configuration
ValidateConfig ==
    /\ ext.validateErr = "none"
    /\ ext' = [ext EXCEPT !.validateErr = Validate(ext.config)]
    /\ UNCHANGED <<capacity, deque, mu, heap, order, conn, host, sink, target,
                   pc, fr>>

\* Start calls the extension is given.
MaxStarts == 2

errBind == "failed to bind MCP HTTP server"

\* The endpoint is taken: by another process, or by the server a previous
\* Start of this extension left serving.
EndpointBound(e) == e.endpointBusy \/ e.httpServer = "serving"

\* Mutant: the HTTP server is stored before the listener is bound, so a
\* failed Start replaces the server of an earlier one.
StartFailed_ReplacesServer(e) ==
    [e EXCEPT !.started = TRUE, !.starts = @ + 1, !.startErr = errBind,
              !.httpServer = "nil", !.cancelFunc = "nil"]
\* mcpExtension.Start when net.Listen fails: the error is returned before
\* httpServer and cancelFunc are assigned.
StartFailed(e) ==
    [e EXCEPT !.started = TRUE, !.starts = @ + 1, !.startErr = errBind]

\* mcpExtension.Start when net.Listen succeeds: httpServer and cancelFunc
\* are assigned under the mutex and the server is served in the background.
StartBound(e) ==
    [e EXCEPT !.started = TRUE, !.starts = @ + 1, !.startErr = "nil",
              !.httpServer = "serving", !.cancelFunc = "set"]

\* mcpExtension.Start: registerTools returns nil; net.Listen on the endpoint
\* fails when the endpoint is bound (and may fail for other reasons), else
\* binds. The collector starts no component after its Shutdown.
ExtStart ==
    /\ ext.created
    /\ ext.starts < MaxStarts
    /\ ext.shutdowns = 0
    /\ \E listens \in BOOLEAN :
          /\ listens => ~EndpointBound(ext)
          /\ ext' = IF listens THEN StartBound(ext) ELSE StartFailed(ext)
    /\ UNCHANGED <<capacity, deque, mu, heap, order, conn, host, sink, target,
                   pc, fr>>

\* Shutdown calls the extension is given.
MaxShutdowns == 2

\* Mutant: the HTTP server's shutdown error is returned.
ShutdownResult_Propagates(e) == e
\* mcpExtension.Shutdown logs the error of httpServer.Shutdown and returns nil
ShutdownResult(e) == "nil"

\* mcpExtension.Shutdown: httpServer.Shutdown(ctx) if there is a server,
\* cancelFunc() if there is one, return nil
ExtShutdown ==
    /\ ext.created
    /\ ext.shutdowns < MaxShutdowns
    /\ \E e \in Errors :
          ext' = [ext EXCEPT
                    !.shutdowns = @ + 1,
                    !.httpServer = IF @ = "nil" THEN "nil" ELSE "closed",
                    !.cancelFunc = IF @ = "nil" THEN "nil" ELSE "called",
                    !.shutdownErr = IF ext.httpServer = "nil"
                                    THEN "nil" ELSE ShutdownResult(e)]
    /\ UNCHANGED <<capacity, deque, mu, heap, order, conn, host, sink, target,
                   pc, fr>>

\* createExtension(ctx, set, cfg): newMCPExtension(config, set), nil. The
\* configuration is not looked at: buffer.New gets its three sizes as they
\* are.
createExtension ==
    /\ ~ext.created
    /\ ext' = [ext EXCEPT !.created = TRUE]
    /\ capacity' = ext.config
    /\ deque' = [k \in Kinds |-> <<>>]
    /\ mu' = [k \in Kinds |-> Unlocked]
    /\ UNCHANGED <<heap, order, conn, host, sink, target, pc, fr>>

\* A configuration has been loaded; no extension, and so no buffer, exists
\* yet.
InitExt ==
    /\ \E cfg \in Configs, busy \in BOOLEAN :
          ext = [newMCPExtension(cfg) EXCEPT !.created = FALSE,
                                             !.endpointBusy = busy]
    /\ New([k \in Kinds |-> Zero])
    /\ heap = <<>>
    /\ order = [k \in Kinds |-> <<>>]
    /\ conn = newConnector(NoNext)
    /\ host = {}
    /\ sink = [k \in Kinds |-> <<>>]
    /\ target = "traces"
    /\ pc = [t \in Threads |-> "Idle"]
    /\ fr = [t \in Threads |-> EmptyFrame]

NextExt ==
    \/ ValidateConfig
    \/ createExtension
    \/ ExtStart
    \/ ExtShutdown

SpecExt == InitExt /\ [][NextExt]_vars

\* ------------------------------- SpecConf: the collector configuration

\* Configurations the collector notifies the extension of.
MaxConfs == 2

\* Mutant: the configuration is written field by field, and the second
\* write comes too late.
StoreConf_Torn(old, new) == <<new[1], old[2]>>
\* e.collectorConf.Store(conf): atomic.Value swaps the pointer in one step
StoreConf(old, new) == new

\* NotifyConfig(ctx, conf): the collector's config watcher calls it, one call
\* at a time, with the next configuration.
NotifyConfig(t) ==
    /\ t = Caller
    /\ pc[t] = "Idle"
    /\ ext.notified < MaxConfs
    /\ fr' = [fr EXCEPT ![t] = [EmptyFrame EXCEPT !.op = "Notify",
                                                  !.conf = Conf(ext.notified + 1)]]
    /\ pc' = [pc EXCEPT ![t] = "Notify_Store"]
    /\ UNCHANGED <<capacity, deque, mu, heap, order, conn, host, sink, ext,
                   target>>

\* NotifyConfig: e.collectorConf.Store(conf)
Notify_Store(t) ==
    /\ pc[t] = "Notify_Store"
    /\ ext' = [ext EXCEPT !.collectorConf = StoreConf(@, fr[t].conf)]
    /\ pc' = [pc EXCEPT ![t] = "Notify_Return"]
    /\ UNCHANGED <<capacity, deque, mu, heap, order, conn, host, sink, target,
                   fr>>

\* NotifyConfig: log, return nil
Notify_Return(t) ==
    /\ pc[t] = "Notify_Return"
    /\ ext' = [ext EXCEPT !.notified = @ + 1]
    /\ fr' = [fr EXCEPT ![t].err = "nil"]
    /\ pc' = [pc EXCEPT ![t] = "Done"]
    /\ UNCHANGED <<capacity, deque, mu, heap, order, conn, host, sink, target>>

\* GetCollectorConf is called (by a tool handler, on any goroutine).
GetCollectorConf(t) ==
    /\ pc[t] = "Idle"
    /\ fr' = [fr EXCEPT ![t] = [EmptyFrame EXCEPT !.op = "GetConf"]]
    /\ pc' = [pc EXCEPT ![t] = "Conf_Load"]
    /\ UNCHANGED <<capacity, deque, mu, heap, order, conn, host, sink, ext,
                   target>>

\* GetCollectorConf: val := e.collectorConf.Load(); nil or val.(*confmap.Conf)
Conf_Load(t) ==
    /\ pc[t] = "Conf_Load"
    /\ fr' = [fr EXCEPT ![t].conf = ext.collectorConf]
    /\ pc' = [pc EXCEPT ![t] = "Done"]
    /\ UNCHANGED <<capacity, deque, mu, heap, order, conn, host, sink, ext,
                   target>>

NextConf ==
    \E t \in Threads :
        \/ NotifyConfig(t)
        \/ Notify_Store(t)
        \/ Notify_Return(t)
        \/ GetCollectorConf(t)
        \/ Conf_Load(t)
        \/ Return(t)

SpecConf == Init /\ [][NextConf]_vars

\* ----------------------------------------------------------------- claims

LastN(s, n) == SubSeq(s, Len(s) - n + 1, Len(s))
Clamp(x, lo, hi) == IF x < lo THEN lo ELSE IF x > hi THEN hi ELSE x
Range(s) == {s[i] : i \in 1..Len(s)}

\* What kind k's buffer holds once every push so far has taken effect: the
\* last min(N, C) items pushed.
Snapshot(k) == LastN(order[k], Min(Len(order[k]), capacity[k]))

\* Batches of kind k handed to Add so far.
Issued(k) == Cardinality({r \in 1..Len(heap) : heap[r].kind = k})
AddInFlight(k) ==
    \E t \in Threads : pc[t] \in {"Add_Lock", "Add_Evict", "Add_Push"} /\ fr[t].kind = k

GetDone(t) == pc[t] = "Done" /\ fr[t].op = "Get"
StatsDone(t) == pc[t] = "Done" /\ fr[t].op = "Stats"

\* C1: under every interleaving of Add, Get, Count and GetStats, no buffer
\* ever retains more items than its capacity.
C1_CountAtMostCapacity == \A k \in Kinds : Len(deque[k]) <= capacity[k]

\* A full buffer that has already evicted, with a reader inside Get or Count.
C1_Witness ==
    \E k \in Kinds :
        /\ Len(order[k]) > capacity[k]
        /\ Len(deque[k]) = capacity[k]
        /\ \E t \in Threads : pc[t] \in {"Get_Read", "Count_Read"}

\* C2: after N >= C sequential Adds (batches 1..N in the order added), the
\* buffer holds exactly the C newest, oldest first, and Get(limit, 0) with
\* limit >= C returns exactly those.
C2_KeepsMostRecent ==
    LET k == target
        N == Len(heap)
        C == capacity[k]
        recent == [i \in 1..C |-> N - C + i]
        f == fr[Caller]
    IN  (N >= C /\ ~AddInFlight(k)) =>
            /\ deque[k] = recent
            /\ (GetDone(Caller) /\ f.offset = 0 /\ f.limit >= C) =>
                   f.res = [panic |-> FALSE, items |-> recent]

\* Get(limit, 0) with limit > C has returned after older items were dropped.
C2_Witness ==
    /\ GetDone(Caller)
    /\ fr[Caller].offset = 0
    /\ fr[Caller].limit > capacity[target]
    /\ Len(heap) > capacity[target]

\* C3: when GetStats reads a kind, it reports count = min(N, C) for the N
\* Adds completed on that kind and capacity = C; with no Add, Get(limit, 0)
\* is empty; no step changes a capacity.
C3_StatsCount ==
    [][ /\ capacity' = capacity
        /\ \A t \in Threads :
              /\ (pc[t] = "Count_Read" /\ pc'[t] # "Count_Read") =>
                     LET k == KindSeq[fr[t].idx]
                     IN  fr'[t].stats[k] =
                             [count |-> Min(Len(order[k]), capacity[k]),
                              capacity |-> capacity[k]]
              /\ (pc[t] = "Get_Read" /\ pc'[t] = "Done" /\ fr[t].offset = 0
                    /\ order[fr[t].kind] = <<>>) =>
                     fr'[t].res = [panic |-> FALSE, items |-> <<>>] ]_vars

\* GetStats has returned count = C for a kind that received more than C Adds.
C3_Witness ==
    \E t \in Threads :
        /\ StatsDone(t)
        /\ Len(order[target]) > capacity[target]
        /\ fr[t].stats[target].count = capacity[target]

\* C4 as claimed: for limit >= 0 and offset >= 0, Get returns exactly
\* clamp(n - offset, 0, limit) items.
C4_GetLength ==
    LET f == fr[Caller]
    IN  (GetDone(Caller) /\ f.limit >= 0 /\ f.offset >= 0) =>
            /\ ~f.res.panic
            /\ Len(f.res.items) = Clamp(Len(deque[f.kind]) - f.offset, 0, f.limit)

C6_GetTotal ==
    LET f == fr[Caller]
    IN  GetDone(Caller) =>
            /\ ~f.res.panic
            /\ Len(f.res.items) <= Len(deque[f.kind])
            /\ Range(f.res.items) \subseteq Range(deque[f.kind])

\* C7: when the Adds issued on a buffer fit its capacity, none is lost: once
\* they have all returned the count is the number issued, and no Get has
\* returned more items than the buffer holds.
C7_NoLostAdd ==
    \A k \in Kinds :
        Issued(k) <= capacity[k] =>
            /\ ~AddInFlight(k) => Len(deque[k]) = Issued(k)
            /\ \A t \in Threads :
                  (GetDone(t) /\ fr[t].kind = k) =>
                      ~fr[t].res.panic /\ Len(fr[t].res.items) <= Len(deque[k])

\* One Add per goroutine on a buffer that holds them all, all returned.
C7_Witness ==
    /\ capacity[target] >= NumThreads
    /\ Issued(target) = NumThreads
    /\ Len(deque[target]) = NumThreads
    /\ \A t \in Threads : pc[t] = "Idle"

\* C8: a reader inside Get or Count (holding the read lock, about to read)
\* faces the buffer with every push so far fully applied, never the state
\* between an Add's eviction and its append; and what a Get returned is the
\* window of such a state.
C8_NoTornRead ==
    \A t \in Threads :
        /\ pc[t] = "Get_Read" => deque[fr[t].kind] = Snapshot(fr[t].kind)
        /\ pc[t] = "Count_Read" =>
               deque[KindSeq[fr[t].idx]] = Snapshot(KindSeq[fr[t].idx])
        /\ GetDone(t) =>
               \E n \in 0..Len(order[fr[t].kind]) :
                   LET past == SubSeq(order[fr[t].kind], 1, n)
                       kept == LastN(past, Min(n, capacity[fr[t].kind]))
                   IN  fr[t].res.items =
                           SubSeq(kept, fr[t].offset + 1,
                                  Min(fr[t].offset + fr[t].limit, Len(kept)))

\* A reader holds the read lock on a full buffer while an Add that must evict
\* waits for the lock.
C8_Witness ==
    \E t, u \in Threads :
        /\ pc[t] = "Get_Read"
        /\ pc[u] = "Add_Lock"
        /\ fr[u].kind = fr[t].kind
        /\ Len(deque[fr[t].kind]) = capacity[fr[t].kind]

ConsumeDone(t) == pc[t] = "Done" /\ fr[t].op = "Consume"
\* Calls of Consume<k> made so far: each call receives a batch built from
\* scratch.
Received(k) == {r \in 1..Len(heap) : heap[r].kind = k /\ heap[r].src = Zero}
\* Calls of Consume<k> that have not yet reached the given step.
Before(k, steps) ==
    {t \in Threads : fr[t].op = "Consume" /\ fr[t].kind = k /\ pc[t] \in steps}
\* The batch a stored item stands for: itself, or the one it was copied from.
Origin(r) == IF heap[r].src = Zero THEN r ELSE heap[r].src

\* C9: whether or not a buffer is held, a Consume call that has returned
\* handed the next consumer of its kind, when one is wired, the very batch it
\* received (not the copy), exactly once, to no other kind's consumer, and
\* returned that consumer's result; with none wired it forwarded nothing and
\* returned nil.
C9_ForwardsOriginalOnce ==
    \A t \in Threads :
        ConsumeDone(t) =>
            LET k == fr[t].kind
                b == fr[t].batch
                got(j) == {i \in 1..Len(sink[j]) : sink[j][i].batch = b}
            IN  /\ heap[b].src = Zero
                /\ \A j \in Kinds \ {k} : got(j) = {}
                /\ IF conn.next[k] # "nil"
                   THEN /\ Cardinality(got(k)) = 1
                        /\ \A i \in got(k) : fr[t].err = sink[k][i].res
                   ELSE /\ got(k) = {}
                        /\ fr[t].err = "nil"

\* A call that stored a copy has returned the next consumer's error.
C9_Witness ==
    \E t \in Threads :
        /\ ConsumeDone(t)
        /\ fr[t].err = "err"
        /\ fr[t].item # fr[t].batch
        /\ fr[t].item \in Range(order[fr[t].kind])

\* C10: while the connector holds a buffer, the Adds done on kind k are one
\* per Consume<k> call that got past its Add, each of the batch received or
\* its copy, and none on another kind; once every call has returned, k calls
\* have left k Adds and, with a next consumer wired, k forwarded batches.
C10_OneAddPerConsume ==
    conn.buffer # Zero =>
        \A k \in Kinds :
            LET adding == Before(k, {"Add_Lock", "Add_Evict", "Add_Push"})
                forwarding == Before(k, {"Consume_Forward"})
                calls == Cardinality(Received(k))
            IN  /\ Len(order[k]) + Cardinality(adding) = calls
                /\ \A i \in 1..Len(order[k]) : heap[order[k][i]].kind = k
                /\ \A i, j \in 1..Len(order[k]) :
                      Origin(order[k][i]) = Origin(order[k][j]) => i = j
                /\ conn.next[k] # "nil" =>
                      Len(sink[k]) + Cardinality(adding) + Cardinality(forwarding)
                          = calls

\* Two calls have returned, buffered and forwarded, and none is in flight.
C10_Witness ==
    /\ conn.buffer # Zero
    /\ conn.next[target] # "nil"
    /\ \A t \in Threads : pc[t] \in {"Idle", "Done"}
    /\ Len(order[target]) = 2
    /\ Len(sink[target]) = 2
    /\ Cardinality(Received(target)) = 2

\* C11: in a Consume call with a buffer held, the Add has completed before the
\* next consumer is invoked (no call still adding has its batch downstream,
\* and the item is among those pushed when the call forwards); the forwarding
\* step leaves the buffers as they are whatever the next consumer answers,
\* and its answer, error included, is what the call returns.
C11_BufferedBeforeForward ==
    [][ \A t \in Threads :
          /\ (fr[t].op = "Consume" /\ pc[t] \in {"Add_Lock", "Add_Evict", "Add_Push"}) =>
                \A i \in 1..Len(sink[fr[t].kind]) :
                    sink[fr[t].kind][i].batch # fr[t].batch
          /\ (pc[t] = "Consume_Forward" /\ pc'[t] = "Done") =>
                LET k == fr[t].kind
                IN  /\ deque' = deque
                    /\ order' = order
                    /\ conn.buffer # Zero => fr[t].item \in Range(order[k])
                    /\ conn.next[k] # "nil" =>
                          /\ Len(sink'[k]) = Len(sink[k]) + 1
                          /\ fr'[t].err = sink'[k][Len(sink'[k])].res ]_vars

\* A call that stored the batch itself returned the next consumer's error,
\* and the batch is still in the buffer.
C11_Witness ==
    \E t \in Threads :
        /\ ConsumeDone(t)
        /\ fr[t].err = "err"
        /\ conn.buffer # Zero
        /\ fr[t].item = fr[t].batch
        /\ fr[t].item \in Range(deque[fr[t].kind])

\* The batches handed to kind k's next consumer so far.
Sunk(k) == {sink[k][i].batch : i \in 1..Len(sink[k])}

\* C12: for a kind whose next consumer declared MutatesData = true, every
\* entry stored is a copy of its own: it is not the batch that was forwarded,
\* and whatever is written to that batch during or after the call, the entry
\* keeps the content the batch had when Consume was called.
C12_StoredCopyIsIndependent ==
    \A k \in Kinds :
        conn.nextMutates[k] =>
            \A i \in 1..Len(order[k]) :
                LET r == order[k][i]
                IN  /\ heap[r].src # Zero
                    /\ r \notin Sunk(k)
                    /\ heap[r].data = "received"

\* The forwarded batch has been written to and its stored copy is retained.
C12_Witness ==
    \E r \in Range(deque[target]) :
        /\ conn.nextMutates[target]
        /\ heap[r].src # Zero
        /\ heap[heap[r].src].data = "mutated"
        /\ heap[r].data = "received"

C14_AlwaysClones ==
    \A k \in Kinds :
        \A i \in 1..Len(order[k]) :
            /\ heap[order[k][i]].src # Zero
            /\ heap[order[k][i]].data = "received"

\* The host has no extension of type mcp that implements TelemetryBuffer.
NoStoreOn(exts) == ~\E e \in exts : e.type = "mcp" /\ e.buffers

\* C15: once started on a host without a matching extension, Start has
\* returned nil and the connector holds no buffer; no call ever enters an Add
\* and nothing is stored, and every Consume call that has returned handed its
\* batch to the wired next consumer once and returned that consumer's result.
C15_PassThroughWithoutStore ==
    (conn.started /\ NoStoreOn(host)) =>
        /\ conn.startErr = "nil"
        /\ conn.buffer = Zero
        /\ \A k \in Kinds : order[k] = <<>> /\ deque[k] = <<>>
        /\ \A t \in Threads :
              /\ pc[t] \notin {"Add_Lock", "Add_Evict", "Add_Push"}
              /\ (ConsumeDone(t) /\ conn.next[fr[t].kind] # "nil") =>
                    \E i \in 1..Len(sink[fr[t].kind]) :
                        /\ sink[fr[t].kind][i] = [batch |-> fr[t].batch, res |-> fr[t].err]
                        /\ \A j \in 1..Len(sink[fr[t].kind]) :
                              sink[fr[t].kind][j].batch = fr[t].batch => j = i

\* On a host whose extensions do not match, a call has forwarded its batch
\* and returned while a second one is being forwarded.
C15_Witness ==
    /\ conn.started
    /\ NoStoreOn(host)
    /\ host # {}
    /\ \E t, u \in Threads :
          /\ ConsumeDone(t)
          /\ fr[t].batch \in Sunk(fr[t].kind)
          /\ pc[u] = "Consume_Forward"

\* C16: the connector's buffer reference is written by no step but Start,
\* which runs once: from then on the reference stays what Start left, absent
\* or found, whatever turns up on the host and however many Consume calls
\* follow.
C16_DiscoveryIsOneShot ==
    [][ /\ conn'.buffer # conn.buffer => (~conn.started /\ conn'.started)
        /\ conn.started => (conn'.started /\ conn'.buffer = conn.buffer) ]_vars

\* A matching extension turned up after Start found none, and a Consume call
\* has since returned without a buffer.
C16_Witness ==
    /\ conn.started
    /\ conn.buffer = Zero
    /\ McpExtension \in host
    /\ ConsumeDone(Caller)
    /\ order[target] = <<>>

\* C17: the flag cached for each kind is what the wired consumer's
\* Capabilities() said at construction (false where none is wired); no step
\* changes it, and every Consume call with a buffer copies exactly when the
\* cached flag says so, whatever the consumer would answer by then.
C17_CachedCapabilityIsFixed ==
    /\ \A k \in Kinds : conn.nextMutates[k] = (conn.next[k] = "mutating")
    /\ [][ /\ conn'.nextMutates = conn.nextMutates
           /\ \A k \in Kinds : conn.next[k] = "nil" => ~conn.nextMutates[k]
           /\ \A t \in Threads :
                 (pc[t] = "Idle" /\ pc'[t] = "Add_Lock" /\ fr'[t].op = "Consume") =>
                     ((fr'[t].item # fr'[t].batch) <=> conn.nextMutates[fr'[t].kind]) ]_vars

\* The consumer now reports that it mutates data, the flag cached says it
\* does not, and a call has stored the batch uncopied.
C17_Witness ==
    /\ ~conn.nextMutates[target]
    /\ conn.next[target] = "mutating"
    /\ fr[Caller].op = "Consume"
    /\ pc[Caller] = "Add_Lock"
    /\ fr[Caller].item = fr[Caller].batch

\* C18: Validate returns "buffer size must be positive" exactly when one of
\* the three buffer sizes is <= 0 and nil otherwise; the default
\* configuration validates without error.
C18_ValidateRejectsNonPositive ==
    /\ ext.validateErr # "none" =>
          /\ ext.validateErr \in {"nil", "buffer size must be positive"}
          /\ ext.validateErr = "buffer size must be positive" <=>
                \E k \in Kinds : ext.config[k] <= 0
    /\ (ext.validateErr # "none" /\ \A k \in Kinds : ext.config[k] = 1000) =>
          ext.validateErr = "nil"

\* A configuration whose only bad size is the last one checked was rejected.
C18_Witness ==
    /\ ext.validateErr = "buffer size must be positive"
    /\ ext.config["traces"] > 0
    /\ ext.config["metrics"] > 0
    /\ ext.config["logs"] = 0

\* C19: a read with limit = k and offset 0 on a buffer that holds more than
\* k batches returns the last k, the k most recently added.
C19_ReturnsLastK ==
    LET f == fr[Caller]
        q == deque[target]
    IN  (GetDone(Caller) /\ f.offset = 0 /\ f.limit >= 1 /\ Len(q) > f.limit) =>
            f.res = [panic |-> FALSE, items |-> LastN(q, f.limit)]

\* C20: every Shutdown of the extension returns nil, whether it comes before
\* any Start, after a Start that succeeded or failed, or after another
\* Shutdown; after a Shutdown no HTTP server is left serving, and further
\* Shutdowns keep it so.
C20_ShutdownNeverFails ==
    /\ ext.shutdownErr \in {"none", "nil"}
    /\ ext.shutdowns > 0 =>
          /\ ext.shutdownErr = "nil"
          /\ ext.httpServer \in {"nil", "closed"}
          /\ ext.cancelFunc \in {"nil", "called"}

\* A started extension has been shut down twice.
C20_Witness ==
    /\ ext.started
    /\ ext.startErr = "nil"
    /\ ext.shutdowns = 2
    /\ ext.httpServer = "closed"

\* C21: a Start on an endpoint that is already bound, by another process or
\* by the server of an earlier Start of this extension, returns "failed to
\* bind MCP HTTP server" and leaves the registered HTTP server as it was; a
\* Shutdown that finds a server serving stops it and returns nil.
C21_BindFailureKeepsServer ==
    [][ /\ (ext'.starts # ext.starts
              /\ (ext.endpointBusy \/ ext.httpServer = "serving")) =>
                 /\ ext'.startErr = "failed to bind MCP HTTP server"
                 /\ ext'.httpServer = ext.httpServer
                 /\ ext'.cancelFunc = ext.cancelFunc
        /\ (ext'.shutdowns # ext.shutdowns /\ ext.httpServer = "serving") =>
                 /\ ext'.httpServer = "closed"
                 /\ ext'.shutdownErr = "nil" ]_vars

\* A second Start failed on the endpoint the first one serves, and the
\* Shutdown after it closed the first Start's server.
C21_Witness ==
    /\ ~ext.endpointBusy
    /\ ext.starts = 2
    /\ ext.startErr = "failed to bind MCP HTTP server"
    /\ ext.shutdowns = 1
    /\ ext.httpServer = "closed"
    /\ ext.shutdownErr = "nil"

\* C22: a GetCollectorConf reads nil before the first NotifyConfig has
\* stored, and otherwise the configuration of the last NotifyConfig that
\* returned or, while a NotifyConfig is under way, that one or the new one:
\* always a whole configuration that was passed. NotifyConfig returns nil.
C22_ConfIsLastNotified ==
    [][ \A t \in Threads :
          /\ (pc[t] = "Conf_Load" /\ pc'[t] = "Done") =>
                LET last == <<ext.notified, ext.notified>>
                    got == fr'[t].conf
                IN  /\ got[1] = got[2]
                    /\ got[1] \in 0..(ext.notified + 1)
                    /\ IF pc[Caller] \in {"Notify_Store", "Notify_Return"}
                       THEN got \in {last, fr[Caller].conf}
                       ELSE got = last
          /\ (pc[t] = "Notify_Return" /\ pc'[t] = "Done") =>
                fr'[t].err = "nil" ]_vars

\* A reader got the second configuration while the call that passes it has
\* not yet returned.
C22_Witness ==
    \E t \in Threads :
        /\ pc[t] = "Done"
        /\ fr[t].op = "GetConf"
        /\ fr[t].conf = <<2, 2>>
        /\ pc[Caller] = "Notify_Return"
        /\ ext.notified = 1

\* C23: no extension, and so no buffer, is ever created from a configuration
\* with a buffer size <= 0: whenever the extension exists, every kind's
\* capacity is positive.
C23_NoNonPositiveCapacity ==
    ext.created =>
        \A k \in Kinds : ext.config[k] > 0 /\ capacity[k] > 0

\* C24: the three buffers are independent. A step of an Add on one kind
\* leaves the content, the count and the capacity of the two other kinds as
\* they were (so an overflow of one kind evicts nothing of another), and a
\* buffer only ever holds batches that were added to its own kind.
C24_KindsAreIndependent ==
    [][ /\ \A t \in Threads :
              (pc[t] \in {"Add_Lock", "Add_Evict", "Add_Push"} /\ pc'[t] # pc[t]) =>
                  \A j \in Kinds \ {fr[t].kind} :
                      /\ deque'[j] = deque[j]
                      /\ FdCount(deque'[j]) = FdCount(deque[j])
                      /\ capacity'[j] = capacity[j]
        /\ \A k \in Kinds : \A r \in Range(deque'[k]) : heap'[r].kind = k ]_vars

\* An Add has just evicted the oldest item of its full buffer while the
\* buffer of another kind holds an item.
C24_Witness ==
    \E t \in Threads : \E j \in Kinds \ {fr[t].kind} :
        /\ pc[t] = "Add_Push"
        /\ Len(order[fr[t].kind]) >= capacity[fr[t].kind]
        /\ Len(deque[fr[t].kind]) = capacity[fr[t].kind] - 1
        /\ Len(deque[j]) >= 1

\* C25: Get, Count, Capacity and GetStats only read. No step of theirs
\* changes the content or the capacity of any buffer, and a Get that finds
\* the buffer as an earlier, identical Get left it (no Add took effect in
\* between: every Add appends a batch of its own) returns the same sequence.
C25_ReadsChangeNothing ==
    [][ \A t \in Threads :
          /\ (pc[t] \in {"Get_RLock", "Get_Read", "Count_RLock", "Count_Read"}
                /\ pc'[t] # pc[t]) =>
                 /\ deque' = deque
                 /\ capacity' = capacity
                 /\ order' = order
                 /\ heap' = heap
          /\ (pc[t] = "Get_Read" /\ pc'[t] = "Done") =>
                 \A u \in Threads \ {t} :
                     (/\ GetDone(u)
                      /\ fr[u].kind = fr[t].kind
                      /\ fr[u].limit = fr[t].limit
                      /\ fr[u].offset = fr[t].offset
                      /\ fr[u].res.items = deque[fr[t].kind]) =>
                         fr'[t].res = fr[u].res ]_vars

\* Two identical Gets have returned the same non-empty sequence, one after
\* the other.
C25_Witness ==
    \E t, u \in Threads :
        /\ t # u
        /\ GetDone(t) /\ GetDone(u)
        /\ fr[t].kind = fr[u].kind
        /\ fr[t].res = fr[u].res
        /\ Len(fr[t].res.items) >= 2

\* The buffers whose lock goroutine t holds, for writing or for reading.
Held(t) == {k \in Kinds : mu[k].w = t \/ t \in mu[k].r}
\* The buffer goroutine t's call is inside of, if any.
Inside(t) ==
    CASE pc[t] \in {"Add_Evict", "Add_Push", "Get_Read"} -> {fr[t].kind}
      [] pc[t] = "Count_Read" -> {KindSeq[fr[t].idx]}
      [] OTHER -> {}
\* The buffer goroutine t waits to lock, if any.
Awaited(t) ==
    CASE pc[t] \in {"Add_Lock", "Get_RLock"} -> {fr[t].kind}
      [] pc[t] = "Count_RLock" -> {KindSeq[fr[t].idx]}
      [] OTHER -> {}

\* C26: no lock is shared between kinds. A goroutine holds the lock of the
\* one buffer its call is inside of and no other, so GetStats never holds
\* two; a buffer's lock is held only by calls inside that buffer; and a call
\* waiting for the lock of a buffer that no call is inside of can take it,
\* whatever locks of other kinds are held.
C26_LocksArePerKind ==
    /\ \A t \in Threads : Held(t) = Inside(t) /\ Cardinality(Held(t)) <= 1
    /\ \A k \in Kinds :
          /\ mu[k].w # 0 => k \in Inside(mu[k].w)
          /\ \A t \in mu[k].r : k \in Inside(t)
    /\ \A u \in Threads : \A j \in Awaited(u) :
          (\A t \in Threads : j \notin Inside(t)) =>
              CanLock(mu[j]) /\ CanRLock(mu[j])

\* An Add holds the lock of its buffer while a call on a buffer of another
\* kind, which nobody is inside of, is about to lock it.
C26_Witness ==
    \E t, u \in Threads : \E j \in Awaited(u) :
        /\ pc[t] \in {"Add_Evict", "Add_Push"}
        /\ fr[t].kind # j
        /\ fr[u].op \in {"Add", "Get"}
        /\ \A v \in Threads : j \notin Inside(v)

\* C28: once Start has returned, the connector holds a buffer exactly when
\* the host has an extension of type "mcp" that implements the buffering
\* interface: an "mcp" extension without the interface and an extension of
\* another type with it are both passed over, and with no match the connector
\* runs without a buffer and stores nothing. Start returns nil either way.
C28_StartSelectsMcpBuffer ==
    conn.started =>
        /\ conn.startErr = "nil"
        /\ McpExtension \in host => conn.buffer # Zero
        /\ host \subseteq {McpWithoutBuffer, OtherWithBuffer} =>
              /\ conn.buffer = Zero
              /\ \A k \in Kinds : order[k] = <<>>
        /\ conn.buffer # Zero =>
              \E e \in host : e.type = "mcp" /\ e.buffers

\* Started on a host with all three sorts of extension, the connector holds
\* the buffer and has stored a batch in it.
C28_Witness ==
    /\ conn.started
    /\ host = {McpExtension, McpWithoutBuffer, OtherWithBuffer}
    /\ conn.buffer # Zero
    /\ order[target] # <<>>

\* The goroutines other than t with an Add of item r in flight.
Adding(r, t) ==
    {u \in Threads \ {t} :
        pc[u] \in {"Add_Lock", "Add_Evict", "Add_Push"} /\ fr[u].item = r}

\* C27: the Adds on one buffer take effect one at a time, in the order in
\* which they took the lock (order[k]): each Add appends its item to that
\* order once; whenever no Add holds the lock the buffer is the last
\* min(N, C) items of it; when a goroutine issues an Add, every earlier Add it
\* issued is already in the order, so its Adds appear in issue order; and
\* whatever a Get returned is a contiguous stretch of the order.
C27_AddsAreTotallyOrdered ==
    [][ \A k \in Kinds :
          /\ \/ order'[k] = order[k]
             \/ \E t \in Threads :
                   /\ pc[t] = "Add_Push" /\ fr[t].kind = k
                   /\ fr[t].item \notin Range(order[k])
                   /\ order'[k] = Append(order[k], fr[t].item)
          /\ mu'[k].w = 0 => deque'[k] = LastN(order'[k], Min(Len(order'[k]), capacity[k]))
          /\ \A t \in Threads :
                /\ (pc[t] = "Idle" /\ pc'[t] = "Add_Lock" /\ fr'[t].kind = k) =>
                       \A a \in 1..Len(heap) :
                           heap[a].kind = k =>
                               a \in Range(order[k]) \/ Adding(a, t) # {}
                /\ (pc'[t] = "Done" /\ fr'[t].op = "Get" /\ fr'[t].kind = k) =>
                       \E a \in 1..(Len(order'[k]) + 1) :
                           fr'[t].res.items =
                               SubSeq(order'[k], a, a + Len(fr'[t].res.items) - 1) ]_vars

\* Two goroutines' Adds took the lock in the opposite order to the one they
\* were issued in, the buffer has overflowed, and a Get has returned two of
\* the retained items.
C27_Witness ==
    \E k \in Kinds : \E t \in Threads :
        /\ \E i, j \in 1..Len(order[k]) : i < j /\ order[k][i] > order[k][j]
        /\ Len(order[k]) > capacity[k]
        /\ GetDone(t) /\ fr[t].kind = k
        /\ Len(fr[t].res.items) >= 2

PageDone(t) == pc[t] = "Done" /\ fr[t].op = "Page"

\* C29: for every page size k >= 1, the pages Get(k, 0), Get(k, k),
\* Get(k, 2k), ... up to the first empty one, put end to end, are what
\* Get(Count, 0) returns: every retained item exactly once, oldest first. No
\* page is longer than k and none of the calls fails.
C29_PagesCoverBuffer ==
    LET f == fr[Caller]
        q == deque[f.kind]
    IN  /\ PageDone(Caller) =>
              /\ ~f.res.panic
              /\ f.pages = FdGet(q, FdCount(q), 0).items
              /\ f.pages = q
              /\ \A i, j \in 1..Len(f.pages) : i # j => f.pages[i] # f.pages[j]
        /\ (f.op = "Page" /\ pc[Caller] = "Page_Next") =>
              /\ ~f.res.panic
              /\ Len(f.res.items) <= f.limit
              /\ f.pages \o f.res.items = SubSeq(q, 1, Len(f.pages) + Len(f.res.items))

\* A buffer that has evicted was read in more than one page.
C29_Witness ==
    /\ PageDone(Caller)
    /\ Len(order[fr[Caller].kind]) > capacity[fr[Caller].kind]
    /\ Len(fr[Caller].pages) > fr[Caller].limit

\* Goroutine t is inside a call that has not returned.
InCall(t) == pc[t] \notin {"Idle", "Done"}

\* C30: under fair scheduling every call returns: whenever a goroutine is
\* inside Add, Get, GetStats (Count) or a Consume whose next consumer
\* returns, it later is outside of it, whatever calls the other goroutines
\* keep making. So nothing deadlocks, and an Add is not kept waiting for ever
\* by readers that keep coming.
C30_EveryCallReturns ==
    \A t \in Threads : InCall(t) ~> ~InCall(t)

\* An Add waits inside Lock for a reader to leave, having shut out the
\* readers that come after it.
C30_Witness ==
    \E t, u \in Threads :
        /\ pc[t] = "Add_Lock"
        /\ mu[fr[t].kind].p = t
        /\ u \in mu[fr[t].kind].r
        /\ fr[t].op = "Consume"

====
